---- MODULE Spec2Model ----
(***************************************************************************)
(* A model of the EPG aggregator of src/main.py: build_epg merges the      *)
(* schedules of two providers (Redbee, the primary; syn.is, the secondary) *)
(* into channels_data and renders it sorted by start.                      *)
(*                                                                         *)
(* Python strings are sequences of one-character strings, so that lower(), *)
(* upper(), replace(), strip(), split() and the string comparison of       *)
(* sorted() are computed, not assumed.  Python dicts are functions whose   *)
(* DOMAIN is the set of keys present, so that d.get(k) and d[k] differ on  *)
(* an absent key as they do in the code.                                   *)
(*                                                                         *)
(* A timestamp is written DDTHH:MMZ (day of month, hour, minute): the      *)
(* year-month prefix and the seconds, constant in every run, are left out. *)
(***************************************************************************)
EXTENDS Integers, Sequences, FiniteSets, TLC

\* ------------------------------------------------------------------------
\* Bounds of the model
\* ------------------------------------------------------------------------

\* Most channels the two providers list in one refresh, taken together.
MaxListed == 2

\* Most records (assets of provider A, schedule entries of provider B) the two
\* providers return in one refresh, taken together.
MaxRecords == 2

\* Most characters of a raw title handed to _parse_title.
MaxTitleLen == 7

\* Most runs of the hourly job in one behaviour.
MaxCronRuns == 2

\* ------------------------------------------------------------------------
\* Python str
\* ------------------------------------------------------------------------

\* The characters of the model's strings at their ASCII code points, from 32
\* (the blank) to 122 (z); "" stands at the code points the model never uses.
Chars ==
    <<
      " ", "", "", "", "", "", "&", "", "", "", "", "+",
      "", "-", ".", "", "0", "1", "2", "3", "4", "5", "6", "7",
      "8", "9", ":", ";", "<", "", ">", "", "", "A", "B", "C",
      "D", "E", "F", "G", "H", "I", "J", "K", "L", "M", "N", "O",
      "P", "Q", "R", "S", "T", "U", "V", "W", "X", "Y", "Z", "",
      "", "", "", "", "", "a", "b", "c", "d", "e", "f", "g",
      "h", "i", "j", "k", "l", "m", "n", "o", "p", "q", "r", "s",
      "t", "u", "v", "w", "x", "y", "z"
    >>

\* ord() of a character.
OrdOf ==
    [c \in {Chars[i] : i \in 1..Len(Chars)} \ {""} |->
        31 + (CHOOSE i \in 1..Len(Chars) : Chars[i] = c)]

Ord(c) == OrdOf[c]

\* chr() of a code point.
Chr(n) == Chars[n - 31]

IsUpper(c) == Ord(c) >= 65 /\ Ord(c) <= 90

IsLower(c) == Ord(c) >= 97 /\ Ord(c) <= 122

\* str.lower()
Lower(s) == [i \in 1..Len(s) |-> IF IsUpper(s[i]) THEN Chr(Ord(s[i]) + 32) ELSE s[i]]

\* str.upper()
Upper(s) == [i \in 1..Len(s) |-> IF IsLower(s[i]) THEN Chr(Ord(s[i]) - 32) ELSE s[i]]

\* s.replace(c, ""): every occurrence of the character c removed.
Remove(s, c) == SelectSeq(s, LAMBDA ch : ch # c)

\* a < b for Python str: lexicographic by code point, a proper prefix first.
RECURSIVE StrLess(_, _)
StrLess(a, b) ==
    IF b = <<>> THEN FALSE
    ELSE IF a = <<>> THEN TRUE
    ELSE IF Head(a) # Head(b) THEN Ord(Head(a)) < Ord(Head(b))
    ELSE StrLess(Tail(a), Tail(b))

\* s.startswith(c) for one character c.
StartsWith(s, c) == Len(s) >= 1 /\ s[1] = c

\* s[1:]
Rest(s) == IF s = <<>> THEN <<>> ELSE Tail(s)

\* str.strip(): leading and trailing blanks removed.
RECURSIVE LStrip(_)
LStrip(s) == IF s # <<>> /\ Head(s) = " " THEN LStrip(Tail(s)) ELSE s

RECURSIVE RStrip(_)
RStrip(s) ==
    IF s # <<>> /\ s[Len(s)] = " " THEN RStrip(SubSeq(s, 1, Len(s) - 1)) ELSE s

Strip(s) == RStrip(LStrip(s))

\* str.split(): the maximal runs of non-blank characters, in order.
RECURSIVE SplitFrom(_, _, _)
SplitFrom(s, word, acc) ==
    IF s = <<>> THEN (IF word = <<>> THEN acc ELSE Append(acc, word))
    ELSE IF Head(s) = " "
         THEN SplitFrom(Tail(s), <<>>, IF word = <<>> THEN acc ELSE Append(acc, word))
         ELSE SplitFrom(Tail(s), Append(word, Head(s)), acc)

Split(s) == SplitFrom(s, <<>>, <<>>)

\* " ".join(words)
RECURSIVE Join(_)
Join(words) ==
    IF words = <<>> THEN <<>>
    ELSE IF Len(words) = 1 THEN words[1]
    ELSE words[1] \o <<" ">> \o Join(Tail(words))

\* s.split(c): the pieces of s between occurrences of the character c.
RECURSIVE SplitOn(_, _, _, _)
SplitOn(s, c, piece, acc) ==
    IF s = <<>> THEN Append(acc, piece)
    ELSE IF Head(s) = c THEN SplitOn(Tail(s), c, <<>>, Append(acc, piece))
    ELSE SplitOn(Tail(s), c, Append(piece, Head(s)), acc)

IsDigit(c) == Ord(c) >= 48 /\ Ord(c) <= 57

AllDigits(s) == s # <<>> /\ \A i \in 1..Len(s) : IsDigit(s[i])

RECURSIVE DigitsValue(_)
DigitsValue(s) ==
    IF s = <<>> THEN 0 ELSE 10 * DigitsValue(SubSeq(s, 1, Len(s) - 1)) + (Ord(s[Len(s)]) - 48)

\* int(s) succeeds: an optional sign and decimal digits.
IsInt(s) ==
    \/ AllDigits(s)
    \/ Len(s) >= 2 /\ s[1] \in {"-", "+"} /\ AllDigits(Tail(s))

\* int(s), where it succeeds.
IntOf(s) ==
    IF s # <<>> /\ s[1] = "-" THEN 0 - DigitsValue(Tail(s))
    ELSE IF s # <<>> /\ s[1] = "+" THEN DigitsValue(Tail(s))
    ELSE DigitsValue(s)

\* A number below 100 as two digits (%d, %H, %M of strftime).
TwoDigits(n) == <<Chr(48 + (n \div 10)), Chr(48 + (n % 10))>>

\* ------------------------------------------------------------------------
\* Python dict
\* ------------------------------------------------------------------------

\* d.get(k, default)
Get(d, k, default) == IF k \in DOMAIN d THEN d[k] ELSE default

\* d.get(k) is truthy, for a key whose value is a str or a list.
Truthy(d, k) == k \in DOMAIN d /\ d[k] # <<>>

\* bool(d.get(k, 0)), for a key whose value is a number.
Flag(d, k) == k \in DOMAIN d /\ d[k] # 0

\* d.get(k) is truthy, for a key whose value is a bool.
IsSet(d, k) == k \in DOMAIN d /\ d[k]

\* d[k] = v on a dict d: the key is added or its value replaced.
Put(d, k, v) == [x \in DOMAIN d \cup {k} |-> IF x = k THEN v ELSE d[x]]

\* ------------------------------------------------------------------------
\* Helper functions of src/main.py
\* ------------------------------------------------------------------------

\* format_date: the characters ":", "-", "T" and "Z" removed, " +0000" added.
format_date(iso_str) ==
    Remove(Remove(Remove(Remove(iso_str, ":"), "-"), "T"), "Z")
        \o <<" ", "+", "0", "0", "0", "0">>

\* format_syn_date
format_syn_date(iso_str) == format_date(iso_str)

\* The remapping table of normalize_channel_slug: syn.is slug -> Redbee slug.
channel_mappings ==
    [k \in {<<"s", "y", "n", "s", "p", "o", "r", "t">>} |->
        <<"s", "y", "n", "s", "p", "o", "r", "t", "1">>]

\* normalize_channel_slug
normalize_channel_slug(slug, source) ==
    LET normalized == Remove(Lower(slug), "-")
    IN  IF source = "syn" /\ normalized \in DOMAIN channel_mappings
        THEN channel_mappings[normalized]
        ELSE normalized

\* _parse_title: <<title, season, episode>>
parse_title(raw) ==
    LET parts == Split(Strip(raw))
    IN  IF Len(parts) > 2 /\ StartsWith(parts[1], "S") /\ StartsWith(parts[2], "E")
        THEN <<Join(SubSeq(parts, 3, Len(parts))), Rest(parts[1]), Rest(parts[2])>>
        ELSE <<Strip(raw), <<>>, <<>>>>

\* get_epg_url: the internalUrl of the first component whose id is
\* "generator-epg-" + comp_data["id"], or None (here <<>>).
GeneratorEpg == <<"g", "e", "n", "e", "r", "a", "t", "o", "r", "-", "e", "p", "g", "-">>

get_epg_url(comp_data) ==
    LET comps == Get(comp_data, "components", <<>>)
        hits  == {i \in 1..Len(comps) :
                     Get(comps[i], "id", <<>>) = GeneratorEpg \o comp_data["id"]}
    IN  IF hits = {} THEN <<>>
        ELSE Get(comps[CHOOSE i \in hits : \A j \in hits : i <= j], "internalUrl", <<>>)

\* ------------------------------------------------------------------------
\* datetime: an instant is a number of minutes; minute 0 is day 01, 00:00.
\* ------------------------------------------------------------------------

MinutesPerDay == 24 * 60

\* datetime.fromisoformat accepts the text: DDTHH:MM and a UTC offset.
IsIso(s) ==
    /\ Len(s) = 14
    /\ AllDigits(SubSeq(s, 1, 2)) /\ s[3] = "T"
    /\ AllDigits(SubSeq(s, 4, 5)) /\ s[6] = ":"
    /\ AllDigits(SubSeq(s, 7, 8))
    /\ SubSeq(s, 9, 14) = <<"+", "0", "0", ":", "0", "0">>
    /\ DigitsValue(SubSeq(s, 1, 2)) >= 1
    /\ DigitsValue(SubSeq(s, 4, 5)) < 24
    /\ DigitsValue(SubSeq(s, 7, 8)) < 60

\* datetime.fromisoformat, where it succeeds.
fromisoformat(s) ==
    (DigitsValue(SubSeq(s, 1, 2)) - 1) * MinutesPerDay
        + DigitsValue(SubSeq(s, 4, 5)) * 60
        + DigitsValue(SubSeq(s, 7, 8))

\* dt.strftime('%Y-%m-%dT%H:%M:%S')
strftime(dt) ==
    TwoDigits((dt \div MinutesPerDay) + 1) \o <<"T">>
        \o TwoDigits((dt % MinutesPerDay) \div 60) \o <<":">>
        \o TwoDigits(dt % 60)

\* s.replace('Z', '+00:00')
ReplaceZ(s) ==
    LET F[i \in 0..Len(s)] ==
            IF i = 0 THEN <<>>
            ELSE F[i - 1] \o (IF s[i] = "Z" THEN <<"+", "0", "0", ":", "0", "0">>
                              ELSE <<s[i]>>)
    IN  F[Len(s)]

\* dt.isoformat() of a timezone-aware datetime: the microseconds are written
\* when they are not zero, and the offset follows.
isoformat(dt, microsecond) ==
    strftime(dt)
        \o (IF microsecond = 0 THEN <<>>
            ELSE <<".">> \o TwoDigits(microsecond \div 10000)
                         \o TwoDigits((microsecond \div 100) % 100)
                         \o TwoDigits(microsecond % 100))
        \o <<"+", "0", "0", ":", "0", "0">>

\* The fallback duration of calculate_end_time, in hours.
FallbackHours == 1

\* calculate_end_time raises: the start is not ISO text, and both the try
\* block and the fallback of its except block parse it.
calculate_end_time_raises(start_time) == ~IsIso(ReplaceZ(start_time))

\* calculate_end_time, where it returns.
calculate_end_time(start_time, duration_str) ==
    LET start_dt == fromisoformat(ReplaceZ(start_time))
        duration_parts == SplitOn(duration_str, ":", <<>>, <<>>)
        ok == /\ Len(duration_parts) >= 2
              /\ IsInt(Strip(duration_parts[1]))
              /\ IsInt(Strip(duration_parts[2]))
        end_dt == IF ok
                  THEN start_dt + IntOf(Strip(duration_parts[1])) * 60
                                + IntOf(Strip(duration_parts[2]))
                  ELSE start_dt + FallbackHours * 60
    IN  strftime(end_dt) \o <<"Z">>

\* xml.sax.saxutils.escape: &, < and > replaced by their entities.
escape(s) ==
    LET F[i \in 0..Len(s)] ==
            IF i = 0 THEN <<>>
            ELSE F[i - 1] \o (CASE s[i] = "&" -> <<"&", "a", "m", "p", ";">>
                                [] s[i] = "<" -> <<"&", "l", "t", ";">>
                                [] s[i] = ">" -> <<"&", "g", "t", ";">>
                                [] OTHER -> <<s[i]>>)
    IN  F[Len(s)]

\* ------------------------------------------------------------------------
\* What the providers can answer
\* ------------------------------------------------------------------------

\* All sequences over S of length at most n.
SeqsUpTo(S, n) == UNION {[1..k -> S] : k \in 0..n}

Instant(day, hour, minute) == TwoDigits(day) \o <<"T">> \o TwoDigits(hour) \o <<":">>
                                  \o TwoDigits(minute) \o <<"Z">>

\* Provider A (Redbee): the entries of the channel listing.
RbChannelSport ==
    [channel |->
        [slugs |-> <<<<"s", "y", "n", "s", "p", "o", "r", "t", "1">>>>,
         title |-> <<>>,
         images |-> <<[url |-> <<"s", ".", "p", "n", "g">>]>>,
         action |-> [internalUrl |-> <<"/", "c", "1">>]]]

RbChannelGolf ==
    [channel |->
        [slugs |-> <<<<"G", "o", "l", "f">>>>,
         title |-> <<"G", "o", "l", "f", " ", "T", "V">>,
         action |-> [internalUrl |-> <<"/", "c", "2">>]]]

RbChannels == {RbChannelSport, RbChannelGolf}

\* Provider A: the component blob of a channel, with and without the EPG
\* generator component.
CompWithEpg ==
    [id |-> <<"c">>,
     components |-> <<[id |-> <<"x">>, internalUrl |-> <<"/", "x">>],
                      [id |-> GeneratorEpg \o <<"c">>, internalUrl |-> <<"/", "e">>]>>]

CompWithoutEpg == [id |-> <<"c">>, components |-> <<[id |-> <<"x">>]>>]

CompPayloads == {CompWithEpg, CompWithoutEpg}

\* Provider A: the assets of a channel's EPG.
AssetX ==
    [startTime |-> Instant(1, 10, 0), endTime |-> Instant(1, 11, 0),
     title |-> <<"X">>, description |-> <<"d">>]

AssetS1E2X ==
    [startTime |-> Instant(1, 10, 0), endTime |-> Instant(1, 11, 0),
     title |-> <<" ", "S", "1", " ", "E", "2", " ", "X">>, description |-> <<"d">>,
     images |-> <<[url |-> <<"x", ".", "p", "n", "g">>]>>]

AssetNoTitle ==
    [startTime |-> Instant(1, 12, 0), endTime |-> Instant(1, 13, 0),
     description |-> <<"d">>]

RbAssets == {AssetX, AssetS1E2X, AssetNoTitle}

\* Provider B (syn.is): the slugs of its channel list.
SynSlugs ==
    {<<"S", "y", "n", "-", "S", "p", "o", "r", "t">>,
     <<"g", "o", "l", "f">>}

\* Provider B: the schedule entries of a (slug, date) pair.
EntryLive ==
    [upphaf |-> Instant(1, 10, 0), slotlengd |-> <<"0", "1", ":", "0", "0">>,
     titill |-> <<"x">>, lysing |-> <<"l">>, flokkur |-> <<"S">>,
     beint |-> 1, frumsyning |-> 0]

EntryNamed ==
    [upphaf |-> Instant(1, 9, 0),
     isltitill |-> <<"Y">>, titill |-> <<"Z">>, midill_heiti |-> <<"S", "n">>,
     flokkur |-> <<>>, beint |-> 0, frumsyning |-> 1, seria |-> <<"3">>]

EntryGolf ==
    [upphaf |-> Instant(1, 10, 0), slotlengd |-> <<"0", "0", ":", "0", "0">>,
     titill |-> <<"X">>, midill |-> <<"g", "o", "l", "f">>, midill_heiti |-> <<>>,
     flokkur |-> <<"N">>, beint |-> 0, frumsyning |-> 1]

EntryNoStart == [titill |-> <<"x">>, midill_heiti |-> <<"S", "n">>]

SynEntries == {EntryLive, EntryNamed, EntryGolf, EntryNoStart}

\* datetime.now(timezone.utc) when a placeholder is made: <<instant, microsecond>>.
Nows == {<<(2 * 24 + 23) * 60 + 30, 123456>>}

\* ------------------------------------------------------------------------
\* build_epg: the steps on one record
\* ------------------------------------------------------------------------

\* The look-ahead window of the secondary pass, in days.
LookAheadDays == 7

\* The span of the placeholder programme, in hours.
PlaceholderHours == 24

\* The duration used for an entry without "slotlengd".
DefaultDuration == <<"0", "1", ":", "0", "0">>

\* A new channel record.
channel_record(title, images) == [title |-> title, images |-> images, programmes |-> <<>>]

\* ch["channel"], its "slugs"[0] and its "title" can be read.
rb_channel_readable(ch) ==
    /\ "channel" \in DOMAIN ch
    /\ "slugs" \in DOMAIN ch.channel
    /\ ch.channel.slugs # <<>>
    /\ "title" \in DOMAIN ch.channel

\* The key under which a channel of provider A is stored.
rb_slug(ch) == normalize_channel_slug(ch.channel.slugs[1], "redbee")

\* The asset has every field the programme is built from.
asset_readable(asset) ==
    {"title", "startTime", "endTime", "description"} \subseteq DOMAIN asset

\* The programme made of an asset of provider A.
rb_programme(asset) ==
    LET parsed == parse_title(asset.title)
    IN  [start |-> format_date(asset.startTime),
         stop |-> format_date(asset.endTime),
         title |-> parsed[1],
         desc |-> asset.description,
         season |-> parsed[2],
         episode |-> parsed[3],
         images |-> Get(asset, "images", <<>>),
         source |-> "redbee"]

\* The programme made of a schedule entry of provider B.
syn_programme(prog_data) ==
    LET start_time == prog_data.upphaf
        end_time == calculate_end_time(start_time,
                                       Get(prog_data, "slotlengd", DefaultDuration))
    IN  [start |-> format_syn_date(start_time),
         stop |-> format_syn_date(end_time),
         title |-> IF Truthy(prog_data, "isltitill") THEN prog_data.isltitill
                   ELSE Get(prog_data, "titill", <<>>),
         desc |-> Get(prog_data, "lysing", <<>>),
         season |-> Get(prog_data, "seria", <<>>),
         episode |-> Get(prog_data, "thattur", <<>>),
         images |-> <<>>,
         source |-> "syn",
         category |-> Get(prog_data, "flokkur", <<>>),
         live |-> Flag(prog_data, "beint"),
         premiere |-> Flag(prog_data, "frumsyning")]

\* The test of the duplicate scan: same start, same title ignoring case.
same_event(existing_prog, programme) ==
    /\ existing_prog.start = programme.start
    /\ Lower(existing_prog.title) = Lower(programme.title)

\* enhance, were the three fields copied whatever the existing record holds.
enhance_overwrites(existing_prog, programme) ==
    Put(Put(Put(existing_prog, "category", programme.category),
            "live", programme.live),
        "premiere", programme.premiere)

\* The existing programme enhanced with the data of a matching entry.
enhance(existing_prog, programme) ==
    LET c == IF ~Truthy(existing_prog, "category") /\ programme.category # <<>>
             THEN Put(existing_prog, "category", programme.category)
             ELSE existing_prog
        l == IF ~IsSet(c, "live") THEN Put(c, "live", programme.live) ELSE c
    IN  IF ~IsSet(l, "premiere") THEN Put(l, "premiere", programme.premiere) ELSE l

\* The index of the first programme of the list the scan matches, or 0.
first_match(programmes, programme) ==
    LET hits == {i \in 1..Len(programmes) : same_event(programmes[i], programme)}
    IN  IF hits = {} THEN 0 ELSE CHOOSE i \in hits : \A j \in hits : i <= j

\* The duplicate scan and the append: a channel's list after one entry.
merge_programme(programmes, programme) ==
    LET i == first_match(programmes, programme)
    IN  IF i = 0 THEN Append(programmes, programme)
        ELSE [programmes EXCEPT ![i] = enhance(@, programme)]

\* The channel an entry fetched for slug is folded into.
entry_channel(slug, prog_data) ==
    normalize_channel_slug(Get(prog_data, "midill", slug), "syn")

\* update_title, were the name of the entry taken whenever the key is present.
update_title_always(data, channel_slug, prog_data) ==
    IF "midill_heiti" \in DOMAIN prog_data
    THEN [data EXCEPT ![channel_slug].title = prog_data.midill_heiti]
    ELSE data

\* The channel title is replaced when the entry names the channel.
update_title(data, channel_slug, prog_data) ==
    IF Truthy(prog_data, "midill_heiti")
    THEN [data EXCEPT ![channel_slug].title = prog_data.midill_heiti]
    ELSE data

\* One pass of the loop over the entries of a day: the channels after it, and
\* the exception that ends the secondary pass, if one is raised.
fold_entry(data, slug, prog_data) ==
    LET channel_slug == entry_channel(slug, prog_data)
        titled == IF channel_slug \in DOMAIN data
                  THEN update_title(data, channel_slug, prog_data)
                  ELSE data
    IN  IF Truthy(prog_data, "midill_heiti") /\ channel_slug \notin DOMAIN data
        THEN [data |-> data, raised |-> "KeyError"]
        ELSE IF "upphaf" \notin DOMAIN prog_data
        THEN [data |-> titled, raised |-> "KeyError"]
        ELSE IF calculate_end_time_raises(prog_data.upphaf)
        THEN [data |-> titled, raised |-> "ValueError"]
        ELSE IF channel_slug \notin DOMAIN data
        THEN [data |-> titled, raised |-> "KeyError"]
        ELSE [data |-> [titled EXCEPT ![channel_slug].programmes =
                            merge_programme(@, syn_programme(prog_data))],
              raised |-> "none"]

\* The sentinel title and description of the placeholder programme.
PlaceholderTitle ==
    <<"N", "o", " ", "p", "r", "o", "g", "r", "a", "m", "m", "i", "n", "g",
      " ", "i", "n", "f", "o", "r", "m", "a", "t", "i", "o", "n", " ", "a",
      "v", "a", "i", "l", "a", "b", "l", "e">>

PlaceholderDesc ==
    <<"N", "o", " ", "p", "r", "o", "g", "r", "a", "m", "m", "e", " ", "s",
      "c", "h", "e", "d", "u", "l", "e", " ", "i", "s", " ", "c", "u", "r",
      "r", "e", "n", "t", "l", "y", " ", "a", "v", "a", "i", "l", "a", "b",
      "l", "e", " ", "f", "o", "r", " ", "t", "h", "i", "s", " ", "c", "h",
      "a", "n", "n", "e", "l", ".">>

\* The placeholder programme of a channel without any programme.
placeholder_programme(now) ==
    [start |-> format_date(isoformat(now[1], now[2]) \o <<"Z">>),
     stop |-> format_date(isoformat(now[1] + PlaceholderHours * 60, now[2])
                              \o <<"Z">>),
     title |-> PlaceholderTitle,
     desc |-> PlaceholderDesc,
     season |-> <<>>,
     episode |-> <<>>,
     images |-> <<>>,
     source |-> "placeholder",
     category |-> <<"I", "n", "f", "o", "r", "m", "a", "t", "i", "o", "n">>,
     live |-> FALSE,
     premiere |-> FALSE]

\* The placeholder is added: no entry was seen and the channel's list is empty.
needs_placeholder(data, normalized_slug, seen) ==
    ~seen /\ data[normalized_slug].programmes = <<>>

\* insert_sorted, were a programme put before those of equal start.
RECURSIVE insert_sorted_unstable(_, _)
insert_sorted_unstable(sorted, programme) ==
    IF sorted = <<>> THEN <<programme>>
    ELSE IF ~StrLess(sorted[Len(sorted)].start, programme.start)
         THEN Append(insert_sorted_unstable(SubSeq(sorted, 1, Len(sorted) - 1), programme),
                     sorted[Len(sorted)])
         ELSE Append(sorted, programme)

\* sorted(programmes, key=start): a stable sort on the start strings.
RECURSIVE insert_sorted(_, _)
insert_sorted(sorted, programme) ==
    IF sorted = <<>> THEN <<programme>>
    ELSE IF StrLess(programme.start, sorted[Len(sorted)].start)
         THEN Append(insert_sorted(SubSeq(sorted, 1, Len(sorted) - 1), programme),
                     sorted[Len(sorted)])
         ELSE Append(sorted, programme)

RECURSIVE sorted_programmes(_)
sorted_programmes(programmes) ==
    IF programmes = <<>> THEN <<>>
    ELSE insert_sorted(sorted_programmes(SubSeq(programmes, 1, Len(programmes) - 1)),
                       programmes[Len(programmes)])

\* The <channel> element of a channel.
channel_element(channel_slug, channel_info) ==
    [k \in {"tag", "id", "display-name"}
           \cup (IF channel_info.images # <<>> THEN {"icon"} ELSE {}) |->
        CASE k = "tag" -> "channel"
          [] k = "id" -> channel_slug
          [] k = "display-name" -> escape(channel_info.title)
          [] k = "icon" -> channel_info.images[1].url]

\* The <programme> element of a programme: the empty fields are left out.
programme_element(channel_slug, programme) ==
    [k \in {"tag", "start", "stop", "channel", "title", "desc"}
           \cup (IF programme.season # <<>> THEN {"series-number"} ELSE {})
           \cup (IF programme.episode # <<>> THEN {"episode-number"} ELSE {})
           \cup (IF programme.images # <<>> THEN {"icon"} ELSE {})
           \cup (IF Truthy(programme, "category") THEN {"category"} ELSE {})
           \cup (IF IsSet(programme, "live") THEN {"live"} ELSE {})
           \cup (IF IsSet(programme, "premiere") THEN {"premiere"} ELSE {}) |->
        CASE k = "tag" -> "programme"
          [] k = "start" -> programme.start
          [] k = "stop" -> programme.stop
          [] k = "channel" -> channel_slug
          [] k = "title" -> escape(programme.title)
          [] k = "desc" -> escape(programme.desc)
          [] k = "series-number" -> programme.season
          [] k = "episode-number" -> programme.episode
          [] k = "icon" -> programme.images[1].url
          [] k = "category" -> escape(programme.category)
          [] k = "live" -> TRUE
          [] k = "premiere" -> TRUE]

\* The children of <tv>: every channel, in the order of the dict, followed by
\* its programmes sorted by start.
RECURSIVE build_root(_, _)
build_root(keys, data) ==
    IF keys = <<>> THEN <<>>
    ELSE LET sorted == sorted_programmes(data[Head(keys)].programmes)
         IN  <<channel_element(Head(keys), data[Head(keys)])>>
                 \o [i \in 1..Len(sorted) |-> programme_element(Head(keys), sorted[i])]
                 \o build_root(Tail(keys), data)

\* ------------------------------------------------------------------------
\* State
\* ------------------------------------------------------------------------

VARIABLES
    pc,              \* where build_epg stands
    outer,           \* provider A's channel listing (outer["channels"])
    rb_i,            \* the index in outer of the channel being worked on
    rb_raised,       \* the exception caught at the end of the primary pass
    n_assets,        \* assets read so far
    channels_data,   \* channel key -> [title, images, programmes]
    order,           \* the keys of channels_data in insertion order
    syn_channels,    \* provider B's channel list
    syn_i,           \* the index in syn_channels of the slug being worked on
    day,             \* the index in dates_to_fetch of the date being fetched
    has_programmes,  \* an entry was seen for the current slug
    syn_raised,      \* the exception caught at the end of the secondary pass
    n_entries,       \* entries read so far
    root,            \* the children of the <tv> element
    EPG_FILE,        \* the cache file: whether it exists, and its chunks
    lock,            \* the holder of _lock, or "none"
    jobs,            \* job of the scheduler -> the state of its thread
    request,         \* the state of a GET /epg request
    raw,             \* the argument of a call of _parse_title
    parsed           \* the result of the call, once made

vars ==
    <<pc, outer, rb_i, rb_raised, n_assets, channels_data, order, syn_channels,
      syn_i, day, has_programmes, syn_raised, n_entries, root,
      EPG_FILE, lock, jobs, request, raw, parsed>>

\* The locals of one call of build_epg.
build_vars ==
    <<pc, outer, rb_i, rb_raised, n_assets, channels_data, order, syn_channels,
      syn_i, day, has_programmes, syn_raised, n_entries, root>>

\* The cache file, its lock, the threads of the scheduler and of the server.
serve_vars == <<EPG_FILE, lock, jobs, request>>

\* One call of _parse_title.
title_vars == <<raw, parsed>>

\* What a step of build_epg leaves alone.
outside_build == <<serve_vars, title_vars>>

rb_vars == <<outer, rb_i, rb_raised, n_assets>>

syn_vars == <<syn_channels, syn_i, day, has_programmes, syn_raised, n_entries>>

\* The empty dict.
EmptyDict == [k \in {} |-> <<>>]

\* build_epg is entered: root = ET.Element("tv"), channels_data = {}.
BuildInit ==
    /\ pc = "rb_listing"
    /\ outer = <<>>
    /\ rb_i = 0
    /\ rb_raised = "none"
    /\ n_assets = 0
    /\ channels_data = EmptyDict
    /\ order = <<>>
    /\ syn_channels = <<>>
    /\ syn_i = 0
    /\ day = 0
    /\ has_programmes = FALSE
    /\ syn_raised = "none"
    /\ n_entries = 0
    /\ root = <<>>

\* The two jobs added to the scheduler: the hourly one and the one of start-up.
Jobs == {"cron", "date"}

\* data/epg.xml before the first refresh wrote it.
NoFile == [exists |-> FALSE, text |-> <<>>]

\* A job whose thread does not run; runs counts the runs it began.
IdleThread == [pc |-> "idle", runs |-> 0, xml |-> <<>>, up |-> <<TRUE, TRUE>>]

\* No request is being served.
IdleRequest == [pc |-> "idle", status |-> 0, pos |-> 0, body |-> <<>>]

\* The module is loaded: the lock is free, the scheduler is started.
ServeInit ==
    /\ EPG_FILE = NoFile
    /\ lock = "none"
    /\ jobs = [j \in Jobs |-> IdleThread]
    /\ request = IdleRequest

\* _parse_title has not returned.
NotCalled == <<>>

Init ==
    /\ BuildInit
    /\ ServeInit
    /\ raw = <<>>
    /\ parsed = NotCalled

\* data[key] = record, and the place of key in the order of the dict.
order_with(keys, key) ==
    IF \E i \in 1..Len(keys) : keys[i] = key THEN keys ELSE Append(keys, key)

\* ------------------------------------------------------------------------
\* build_epg: the primary pass (Redbee)
\* ------------------------------------------------------------------------

\* The exception handler of the primary pass: the pass ends where it stands.
rb_except(kind) ==
    /\ rb_raised' = kind
    /\ pc' = "syn_listing"

\* fetch_json(listing_url) answers.
RbListing ==
    /\ pc = "rb_listing"
    /\ \E listing \in SeqsUpTo(RbChannels, MaxListed) :
           outer' = listing
    /\ rb_i' = 1
    /\ pc' = "rb_channel"
    /\ UNCHANGED <<rb_raised, n_assets, channels_data, order, syn_vars, root, outside_build>>

\* fetch_json(listing_url) raises.
RbListingFails ==
    /\ pc = "rb_listing"
    /\ rb_except("listing")
    /\ UNCHANGED <<outer, rb_i, n_assets, channels_data, order, syn_vars, root, outside_build>>

\* One channel of the listing: its record is stored, its component blob and
\* its EPG fetched.  comp_ok and epg_ok tell whether the two fetches answer,
\* comp is the answer of the first.
rb_channel_step(ch, comp_ok, comp, epg_ok) ==
    IF ~rb_channel_readable(ch)
    THEN /\ rb_except("KeyError")
         /\ UNCHANGED <<outer, rb_i, n_assets, channels_data, order>>
    ELSE /\ channels_data' =
                Put(channels_data, rb_slug(ch),
                    channel_record(ch.channel.title, Get(ch.channel, "images", <<>>)))
         /\ order' = order_with(order, rb_slug(ch))
         /\ UNCHANGED <<outer, n_assets>>
         /\ IF "action" \notin DOMAIN ch.channel
               \/ "internalUrl" \notin DOMAIN ch.channel.action
            THEN rb_except("KeyError") /\ UNCHANGED rb_i
            ELSE IF ~comp_ok
            THEN rb_except("channel") /\ UNCHANGED rb_i
            ELSE IF get_epg_url(comp) = <<>>
            THEN /\ rb_i' = rb_i + 1
                 /\ UNCHANGED <<pc, rb_raised>>
            ELSE IF ~epg_ok
            THEN rb_except("channel") /\ UNCHANGED rb_i
            ELSE /\ pc' = "rb_asset"
                 /\ UNCHANGED <<rb_i, rb_raised>>

RbChannel ==
    /\ pc = "rb_channel"
    /\ rb_i <= Len(outer)
    /\ \E comp_ok \in BOOLEAN, comp \in CompPayloads, epg_ok \in BOOLEAN :
           rb_channel_step(outer[rb_i], comp_ok, comp, epg_ok)
    /\ UNCHANGED <<syn_vars, root, outside_build>>

\* One asset of the channel's EPG.
rb_asset_step(asset) ==
    IF ~asset_readable(asset)
    THEN /\ rb_except("KeyError")
         /\ UNCHANGED <<channels_data>>
    ELSE /\ channels_data' =
                [channels_data EXCEPT ![rb_slug(outer[rb_i])].programmes =
                    Append(@, rb_programme(asset))]
         /\ UNCHANGED <<pc, rb_raised>>

RbAsset ==
    /\ pc = "rb_asset"
    /\ n_assets + n_entries < MaxRecords
    /\ n_assets' = n_assets + 1
    /\ \E asset \in RbAssets : rb_asset_step(asset)
    /\ UNCHANGED <<outer, rb_i, order, syn_vars, root, outside_build>>

\* The assets of the channel are exhausted.
RbAssetsEnd ==
    /\ pc = "rb_asset"
    /\ rb_i' = rb_i + 1
    /\ pc' = "rb_channel"
    /\ UNCHANGED <<outer, rb_raised, n_assets, channels_data, order, syn_vars, root, outside_build>>

\* The listing is exhausted.
RbDone ==
    /\ pc = "rb_channel"
    /\ rb_i > Len(outer)
    /\ pc' = "syn_listing"
    /\ UNCHANGED <<rb_vars, channels_data, order, syn_vars, root, outside_build>>

\* ------------------------------------------------------------------------
\* build_epg: the secondary pass (syn.is)
\* ------------------------------------------------------------------------

\* The exception handler of the secondary pass: the pass ends where it stands.
syn_except(kind) ==
    /\ syn_raised' = kind
    /\ pc' = "render"

\* fetch_syn_channels answers with the channel list.
SynListing ==
    /\ pc = "syn_listing"
    /\ \E listing \in SeqsUpTo(SynSlugs, MaxListed - Len(outer)) :
           syn_channels' = listing
    /\ syn_i' = 1
    /\ pc' = "syn_slug"
    /\ UNCHANGED <<rb_vars, channels_data, order, day, has_programmes, syn_raised,
                   n_entries, root, outside_build>>

\* SynListingFails, were the result of the primary pass dropped on the failure.
SynListingFails_Resets ==
    /\ pc = "syn_listing"
    /\ syn_channels' = <<>>
    /\ syn_i' = 1
    /\ pc' = "syn_slug"
    /\ channels_data' = EmptyDict
    /\ order' = <<>>
    /\ UNCHANGED <<rb_vars, day, has_programmes, syn_raised, n_entries, root, outside_build>>

\* fetch_syn_channels catches the failure of its request and returns [].
SynListingFails ==
    /\ pc = "syn_listing"
    /\ syn_channels' = <<>>
    /\ syn_i' = 1
    /\ pc' = "syn_slug"
    /\ UNCHANGED <<rb_vars, channels_data, order, day, has_programmes, syn_raised,
                   n_entries, root, outside_build>>

\* The channels once the record of a slug of provider B is ensured.
ensure_channel(data, slug) ==
    IF normalize_channel_slug(slug, "syn") \notin DOMAIN data
    THEN Put(data, normalize_channel_slug(slug, "syn"), channel_record(Upper(slug), <<>>))
    ELSE data

\* The head of the loop over the slugs: the channel record is ensured.
SynSlug ==
    /\ pc = "syn_slug"
    /\ syn_i <= Len(syn_channels)
    /\ channels_data' = ensure_channel(channels_data, syn_channels[syn_i])
    /\ order' = order_with(order, normalize_channel_slug(syn_channels[syn_i], "syn"))
    /\ has_programmes' = FALSE
    /\ day' = 1
    /\ pc' = "syn_day"
    /\ UNCHANGED <<rb_vars, syn_channels, syn_i, syn_raised, n_entries, root, outside_build>>

\* fetch_syn_epg catches the failure of its request and returns []: the loop
\* over the dates goes on.
fetch_syn_epg_fails ==
    /\ day' = day + 1
    /\ UNCHANGED <<pc, syn_raised>>

SynFetchFails ==
    /\ pc = "syn_day"
    /\ day <= LookAheadDays
    /\ fetch_syn_epg_fails
    /\ UNCHANGED <<rb_vars, channels_data, order, syn_channels, syn_i, has_programmes,
                   n_entries, root, outside_build>>

\* fetch_syn_epg answers with the entries of the date.
SynFetch ==
    /\ pc = "syn_day"
    /\ day <= LookAheadDays
    /\ pc' = "syn_entry"
    /\ UNCHANGED <<rb_vars, channels_data, order, syn_channels, syn_i, day,
                   has_programmes, syn_raised, n_entries, root, outside_build>>

\* One entry of the date.
syn_entry_step(prog_data) ==
    LET folded == fold_entry(channels_data, syn_channels[syn_i], prog_data)
    IN  /\ has_programmes' = TRUE
        /\ channels_data' = folded.data
        /\ IF folded.raised # "none"
           THEN syn_except(folded.raised)
           ELSE UNCHANGED <<pc, syn_raised>>

SynEntry ==
    /\ pc = "syn_entry"
    /\ n_assets + n_entries < MaxRecords
    /\ n_entries' = n_entries + 1
    /\ \E prog_data \in SynEntries : syn_entry_step(prog_data)
    /\ UNCHANGED <<rb_vars, order, syn_channels, syn_i, day, root, outside_build>>

\* The entries of the date are exhausted.
SynEntriesEnd ==
    /\ pc = "syn_entry"
    /\ day' = day + 1
    /\ pc' = "syn_day"
    /\ UNCHANGED <<rb_vars, channels_data, order, syn_channels, syn_i, has_programmes,
                   syn_raised, n_entries, root, outside_build>>

\* The channels after the placeholder check of a slug.
with_placeholder(data, slug, seen, now) ==
    IF needs_placeholder(data, normalize_channel_slug(slug, "syn"), seen)
    THEN [data EXCEPT ![normalize_channel_slug(slug, "syn")].programmes =
              Append(@, placeholder_programme(now))]
    ELSE data

\* The dates are exhausted: the placeholder check, and the next slug.
SynSlugEnd ==
    /\ pc = "syn_day"
    /\ day > LookAheadDays
    /\ \E now \in Nows :
           channels_data' =
               with_placeholder(channels_data, syn_channels[syn_i], has_programmes, now)
    /\ syn_i' = syn_i + 1
    /\ pc' = "syn_slug"
    /\ UNCHANGED <<rb_vars, order, syn_channels, day, has_programmes, syn_raised,
                   n_entries, root, outside_build>>

\* The channel list is exhausted.
SynDone ==
    /\ pc = "syn_slug"
    /\ syn_i > Len(syn_channels)
    /\ pc' = "render"
    /\ UNCHANGED <<rb_vars, channels_data, order, syn_channels, syn_i, day,
                   has_programmes, syn_raised, n_entries, root, outside_build>>

\* ------------------------------------------------------------------------
\* build_epg: the document
\* ------------------------------------------------------------------------

Render ==
    /\ pc = "render"
    /\ root' = build_root(order, channels_data)
    /\ pc' = "done"
    /\ UNCHANGED <<rb_vars, channels_data, order, syn_vars, outside_build>>

Next ==
    \/ RbListing
    \/ RbListingFails
    \/ RbChannel
    \/ RbAsset
    \/ RbAssetsEnd
    \/ RbDone
    \/ SynListing
    \/ SynListingFails
    \/ SynSlug
    \/ SynFetchFails
    \/ SynFetch
    \/ SynEntry
    \/ SynEntriesEnd
    \/ SynSlugEnd
    \/ SynDone
    \/ Render

Spec == Init /\ [][Next]_vars

\* ------------------------------------------------------------------------
\* _parse_title, called on any raw title
\* ------------------------------------------------------------------------

\* The characters of the raw titles: the two markers, a digit, a letter, blank.
TitleChars == {"S", "E", "2", "o", " "}

\* _parse_title is about to be called on a raw title.
ParseInit ==
    /\ BuildInit
    /\ ServeInit
    /\ raw \in SeqsUpTo(TitleChars, MaxTitleLen)
    /\ parsed = NotCalled

\* _parse_title(raw) returns.
ParseTitle ==
    /\ parsed = NotCalled
    /\ parsed' = parse_title(raw)
    /\ UNCHANGED <<build_vars, serve_vars, raw>>

ParseSpec == ParseInit /\ [][ParseTitle]_vars

\* ------------------------------------------------------------------------
\* build_epg as one call, on the answers of the providers of one refresh
\* ------------------------------------------------------------------------

\* The primary pass when provider A lists one channel with one asset, and
\* when its listing request fails.
primary_pass(a_up) ==
    IF a_up
    THEN [data |-> Put(EmptyDict, rb_slug(RbChannelGolf),
                       [channel_record(RbChannelGolf.channel.title, <<>>)
                            EXCEPT !.programmes = <<rb_programme(AssetX)>>]),
          keys |-> <<rb_slug(RbChannelGolf)>>]
    ELSE [data |-> EmptyDict, keys |-> <<>>]

\* The secondary pass when provider B lists one slug with one entry, and when
\* its channel request fails.
secondary_pass(merged, b_up) ==
    LET slug == <<"g", "o", "l", "f">>
    IN  IF b_up
        THEN [data |-> fold_entry(ensure_channel(merged.data, slug), slug,
                                  EntryNamed).data,
              keys |-> order_with(merged.keys, normalize_channel_slug(slug, "syn"))]
        ELSE merged

\* ET.tostring(root): the chunks of the text, the <tv> element around its
\* children; a <tv> without children is one chunk.
tostring(children) ==
    IF children = <<>> THEN <<[tag |-> "tv", part |-> "empty"]>>
    ELSE <<[tag |-> "tv", part |-> "open"]>> \o children
             \o <<[tag |-> "tv", part |-> "close"]>>

\* The text build_epg returns.
build_epg(a_up, b_up) ==
    LET merged == secondary_pass(primary_pass(a_up), b_up)
    IN  tostring(build_root(merged.keys, merged.data))

\* ------------------------------------------------------------------------
\* generate_and_store, the scheduler and epg_endpoint
\* ------------------------------------------------------------------------

\* The scheduler starts a run of a job in a thread of its pool.  The job of
\* start-up has a date trigger and runs once; the hourly job runs again and
\* again, and a run that falls due while the job still runs is skipped (one
\* instance per job).  Nothing ties the runs of the two jobs to each other.
Trigger(j) ==
    /\ jobs[j].pc = "idle"
    /\ jobs[j].runs < (IF j = "date" THEN 1 ELSE MaxCronRuns)
    /\ jobs' = [jobs EXCEPT ![j].pc = "build", ![j].runs = @ + 1]
    /\ UNCHANGED <<build_vars, EPG_FILE, lock, request, title_vars>>

\* xml = build_epg(): each provider is reachable or not.
BuildEpg(j) ==
    /\ jobs[j].pc = "build"
    /\ \E a_up \in BOOLEAN, b_up \in BOOLEAN :
           jobs' = [jobs EXCEPT ![j].pc = "acquire",
                                ![j].xml = build_epg(a_up, b_up),
                                ![j].up = <<a_up, b_up>>]
    /\ UNCHANGED <<build_vars, EPG_FILE, lock, request, title_vars>>

\* build_epg raises (its rendering is outside any try of its own): the run
\* logs the failure and ends.
BuildEpgRaises(j) ==
    /\ jobs[j].pc = "build"
    /\ jobs' = [jobs EXCEPT ![j].pc = "idle"]
    /\ UNCHANGED <<build_vars, EPG_FILE, lock, request, title_vars>>

\* with _lock: the thread of the job enters.
JobAcquire(j) ==
    /\ jobs[j].pc = "acquire"
    /\ lock = "none"
    /\ lock' = j
    /\ jobs' = [jobs EXCEPT ![j].pc = "open"]
    /\ UNCHANGED <<build_vars, EPG_FILE, request, title_vars>>

\* write_text opens the file for writing: it is created or truncated.
WriteOpen(j) ==
    /\ jobs[j].pc = "open"
    /\ EPG_FILE' = [exists |-> TRUE, text |-> <<>>]
    /\ jobs' = [jobs EXCEPT ![j].pc = "write"]
    /\ UNCHANGED <<build_vars, lock, request, title_vars>>

\* write_text writes the next chunk of the text.
WriteChunk(j) ==
    /\ jobs[j].pc = "write"
    /\ Len(EPG_FILE.text) < Len(jobs[j].xml)
    /\ EPG_FILE' = [EPG_FILE EXCEPT
                        !.text = Append(@, jobs[j].xml[Len(EPG_FILE.text) + 1])]
    /\ UNCHANGED <<build_vars, lock, jobs, request, title_vars>>

\* write_text closes the file, the with block is left, the run ends.
WriteClose(j) ==
    /\ jobs[j].pc = "write"
    /\ Len(EPG_FILE.text) = Len(jobs[j].xml)
    /\ lock' = "none"
    /\ jobs' = [jobs EXCEPT ![j].pc = "idle"]
    /\ UNCHANGED <<build_vars, EPG_FILE, request, title_vars>>

\* A GET /epg arrives.
Request ==
    /\ request.pc = "idle"
    /\ request' = [request EXCEPT !.pc = "acquire"]
    /\ UNCHANGED <<build_vars, EPG_FILE, lock, jobs, title_vars>>

\* with _lock: the thread of the request enters.
EndpointAcquire ==
    /\ request.pc = "acquire"
    /\ lock = "none"
    /\ lock' = "request"
    /\ request' = [request EXCEPT !.pc = "locked"]
    /\ UNCHANGED <<build_vars, EPG_FILE, jobs, title_vars>>

\* The file does not exist: 503, and the with block is left.
EndpointNotGenerated ==
    /\ request.pc = "locked"
    /\ ~EPG_FILE.exists
    /\ request' = [request EXCEPT !.pc = "served", !.status = 503]
    /\ lock' = "none"
    /\ UNCHANGED <<build_vars, EPG_FILE, jobs, title_vars>>

\* send_file opens the file and returns a response around the open file; the
\* with block is left on the return.  The body is not read yet: the server
\* reads it from the open file while it sends the response.
EndpointSendFile ==
    /\ request.pc = "locked"
    /\ EPG_FILE.exists
    /\ request' = [request EXCEPT !.pc = "sending", !.status = 200, !.pos = 1]
    /\ lock' = "none"
    /\ UNCHANGED <<build_vars, EPG_FILE, jobs, title_vars>>

\* The server reads the next chunk of the file and sends it.
SendChunk ==
    /\ request.pc = "sending"
    /\ request.pos <= Len(EPG_FILE.text)
    /\ request' = [request EXCEPT !.body = Append(@, EPG_FILE.text[request.pos]),
                                  !.pos = @ + 1]
    /\ UNCHANGED <<build_vars, EPG_FILE, lock, jobs, title_vars>>

\* The server reads the end of the file: the response is complete.
SendEnd ==
    /\ request.pc = "sending"
    /\ request.pos > Len(EPG_FILE.text)
    /\ request' = [request EXCEPT !.pc = "served"]
    /\ UNCHANGED <<build_vars, EPG_FILE, lock, jobs, title_vars>>

ServeNext ==
    \/ \E j \in Jobs : Trigger(j)
    \/ \E j \in Jobs : BuildEpg(j)
    \/ \E j \in Jobs : BuildEpgRaises(j)
    \/ \E j \in Jobs : JobAcquire(j)
    \/ \E j \in Jobs : WriteOpen(j)
    \/ \E j \in Jobs : WriteChunk(j)
    \/ \E j \in Jobs : WriteClose(j)
    \/ Request
    \/ EndpointAcquire
    \/ EndpointNotGenerated
    \/ EndpointSendFile
    \/ SendChunk
    \/ SendEnd

ServeSpec == Init /\ [][ServeNext]_vars

\* ------------------------------------------------------------------------
\* Properties
\* ------------------------------------------------------------------------

\* The MergeKey of a programme: its start and its title in lower case.
merge_key(programme) == <<programme.start, Lower(programme.title)>>

\* The positions of a list whose programme has the given MergeKey.
with_key(programmes, key) == {i \in 1..Len(programmes) : merge_key(programmes[i]) = key}

\* build_epg stands in the secondary pass.
InSecondaryPass == pc \in {"syn_listing", "syn_slug", "syn_day", "syn_entry"}

\* The merge is over.
Merged == pc \in {"render", "done"}

\* The entries provider B can return that the loop body folds without raising.
Foldable(data, slug) ==
    {prog_data \in SynEntries : fold_entry(data, slug, prog_data).raised = "none"}

\* The keys of the channels provider B advertised.
Advertised ==
    {normalize_channel_slug(syn_channels[i], "syn") : i \in 1..Len(syn_channels)}

\* The keys of the channels provider A listed.
ListedByPrimary ==
    {rb_slug(outer[i]) : i \in {j \in 1..Len(outer) : rb_channel_readable(outer[j])}}

\* C1: in every state where the loop over a day's entries stands, for every
\* entry the provider can return there that matches (same start, same title
\* ignoring case) a primary programme of the channel it is folded into, the
\* fold appends nothing and the channel then holds exactly one programme with
\* that (start, lower-case title) pair.
C1_DuplicateNotAppended ==
    pc = "syn_entry" =>
        \A prog_data \in Foldable(channels_data, syn_channels[syn_i]) :
            LET k == entry_channel(syn_channels[syn_i], prog_data)
                before == channels_data[k].programmes
                after == fold_entry(channels_data, syn_channels[syn_i], prog_data)
                             .data[k].programmes
                programme == syn_programme(prog_data)
            IN  (\E i \in 1..Len(before) :
                     before[i].source = "redbee" /\ same_event(before[i], programme))
                => /\ Len(after) = Len(before)
                   /\ Cardinality(with_key(after, merge_key(programme))) = 1

\* C2: after the merge no channel's programme list holds two records with the
\* same MergeKey.
C2_MergeKeyUnique ==
    Merged =>
        \A k \in DOMAIN channels_data :
            \A i, j \in 1..Len(channels_data[k].programmes) :
                merge_key(channels_data[k].programmes[i])
                    = merge_key(channels_data[k].programmes[j]) => i = j

\* C3: in every state where the loop over a day's entries stands, for every
\* entry the provider can return there that matches an existing record, the
\* matched record keeps each of category, live and premiere that is set, takes
\* the entry's value for each that is unset, keeps every other field, and the
\* rest of the list is as before.
C3_EnrichmentWithoutOverride ==
    pc = "syn_entry" =>
        \A prog_data \in SynEntries :
            LET folded == fold_entry(channels_data, syn_channels[syn_i], prog_data)
                k == entry_channel(syn_channels[syn_i], prog_data)
                before == channels_data[k].programmes
                after == folded.data[k].programmes
                programme == syn_programme(prog_data)
                m == first_match(before, programme)
            IN  (folded.raised = "none" /\ m # 0) =>
                /\ Len(after) = Len(before)
                /\ \A i \in 1..Len(before) : i # m => after[i] = before[i]
                /\ \A f \in DOMAIN before[m] \ {"category", "live", "premiere"} :
                       f \in DOMAIN after[m] /\ after[m][f] = before[m][f]
                /\ IF Truthy(before[m], "category")
                   THEN after[m].category = before[m].category
                   ELSE Get(after[m], "category", <<>>) = programme.category
                /\ IF IsSet(before[m], "live")
                   THEN after[m].live
                   ELSE after[m].live = programme.live
                /\ IF IsSet(before[m], "premiere")
                   THEN after[m].premiere
                   ELSE after[m].premiere = programme.premiere

\* C3, its case: a programme of provider A carries the live flag and the
\* category of a matching entry of provider B.
C3_Witness ==
    \E k \in DOMAIN channels_data :
        \E i \in 1..Len(channels_data[k].programmes) :
            /\ channels_data[k].programmes[i].source = "redbee"
            /\ IsSet(channels_data[k].programmes[i], "live")
            /\ Truthy(channels_data[k].programmes[i], "category")

\* The title Step 2 of the merge gives a channel nobody named: a slug of the
\* channel, in upper case.
IsSlugFallback(k, title) ==
    \E slug \in SynSlugs : normalize_channel_slug(slug, "syn") = k /\ title = Upper(slug)

\* C4: a step of the secondary pass changes the title of a channel only if
\* the title was missing or was the upper-case slug of the channel.
C4_TitleNeverDowngraded ==
    [][InSecondaryPass =>
          \A k \in DOMAIN channels_data :
              channels_data'[k].title # channels_data[k].title
                  => \/ channels_data[k].title = <<>>
                     \/ IsSlugFallback(k, channels_data[k].title)]_vars

\* C5: a step of the secondary pass leaves every non-empty channel title
\* non-empty.
C5_TitleNeverBlanked ==
    [][InSecondaryPass =>
          \A k \in DOMAIN channels_data :
              channels_data[k].title # <<>>
                  => k \in DOMAIN channels_data' /\ channels_data'[k].title # <<>>]_vars

\* C5, its case: a channel provider A titled has taken an entry of provider B
\* whose channel name is empty or absent, and is still titled as by A.
C5_Witness ==
    /\ Merged
    /\ \E i \in 1..Len(outer) :
           /\ outer[i].channel.title # <<>>
           /\ rb_slug(outer[i]) \in DOMAIN channels_data
           /\ channels_data[rb_slug(outer[i])].title = outer[i].channel.title
           /\ \E j \in 1..Len(channels_data[rb_slug(outer[i])].programmes) :
                  channels_data[rb_slug(outer[i])].programmes[j].source = "syn"

\* C6: when the refresh is over, every channel provider B advertised is in
\* the result with a non-empty programme list.
C6_AdvertisedChannelsHaveProgrammes ==
    pc = "done" =>
        \A k \in Advertised :
            k \in DOMAIN channels_data /\ channels_data[k].programmes # <<>>

\* The instant a rendered start or stop stands for: its six leading digits.
instant_of(formatted) == fromisoformat(
    SubSeq(formatted, 1, 2) \o <<"T">> \o SubSeq(formatted, 3, 4) \o <<":">>
        \o SubSeq(formatted, 5, 6))

\* The places of the channel list whose slug has the key k.
listed_at(k) ==
    {i \in 1..Len(syn_channels) : normalize_channel_slug(syn_channels[i], "syn") = k}

\* A channel holds the placeholder and nothing else.
placeholder_only(data, k) ==
    /\ k \in DOMAIN data
    /\ Len(data[k].programmes) = 1
    /\ data[k].programmes[1].source = "placeholder"
    /\ data[k].programmes[1].title = PlaceholderTitle
    /\ instant_of(data[k].programmes[1].stop)
           = instant_of(data[k].programmes[1].start) + PlaceholderHours * 60

\* Only provider B lists the key k, and lists it once.
secondary_only(k) == k \notin ListedByPrimary /\ Cardinality(listed_at(k)) = 1

\* C7: when the seven days of a slug were fetched without any entry, and the
\* key of the slug is listed by provider B only (and once), the channel holds
\* exactly the placeholder (stop 24 hours after start) once the slug is done,
\* and it still holds exactly the placeholder after every later step, up to
\* the end of the merge.
C7_PlaceholderSynthesis ==
    [][/\ (/\ pc = "syn_day" /\ day > LookAheadDays /\ ~has_programmes
           /\ secondary_only(normalize_channel_slug(syn_channels[syn_i], "syn")))
          => placeholder_only(channels_data',
                              normalize_channel_slug(syn_channels[syn_i], "syn"))
       /\ \A k \in DOMAIN channels_data :
              (secondary_only(k) /\ placeholder_only(channels_data, k))
                  => placeholder_only(channels_data', k)]_vars

\* C8: when provider B yields no channels, no step of the secondary pass
\* changes the channels, their order, titles, icons or programmes: the result
\* is the result of the primary pass.
C8_EmptySecondaryIsIdentity ==
    [][(InSecondaryPass /\ syn_channels' = <<>>)
          => /\ channels_data' = channels_data
             /\ order' = order
             /\ pc' \in {"syn_slug", "render"}]_vars

\* C8, its case: the refresh is over, provider B yielded no channels, and the
\* result holds a programme of provider A.
C8_Witness ==
    /\ pc = "done"
    /\ syn_channels = <<>>
    /\ \E k \in DOMAIN channels_data : channels_data[k].programmes # <<>>

\* The <programme> elements of a channel, in document order.
rendered(k) == SelectSeq(root, LAMBDA e : e.tag = "programme" /\ e.channel = k)

\* C9: in the document, the programmes of every channel are in ascending order
\* of start, and programmes of equal start are in the order of the channel's
\* list.
C9_ChronologicalStable ==
    pc = "done" =>
        \A k \in DOMAIN channels_data :
            LET programmes == channels_data[k].programmes
                n == Len(programmes)
            IN  /\ Len(rendered(k)) = n
                /\ \A i \in 1..(n - 1) :
                       ~StrLess(rendered(k)[i + 1].start, rendered(k)[i].start)
                /\ \E f \in Permutations(1..n) :
                       /\ \A i \in 1..n :
                              rendered(k)[i] = programme_element(k, programmes[f[i]])
                       /\ \A i, j \in 1..n :
                              (i < j /\ rendered(k)[i].start = rendered(k)[j].start)
                                  => f[i] < f[j]

\* C9, its case: the document holds the programmes of a channel in another
\* order than the channel's list.
C9_Witness ==
    /\ pc = "done"
    /\ \E k \in DOMAIN channels_data :
           /\ Len(channels_data[k].programmes) >= 2
           /\ rendered(k) # [i \in 1..Len(channels_data[k].programmes) |->
                                 programme_element(k, channels_data[k].programmes[i])]

\* C10: when the primary pass ended on a failed fetch for one channel, every
\* other channel of the listing, those after it included, is in the result.
C10_FailedFetchSkipsOnlyItsUnit ==
    (pc \notin {"rb_listing", "rb_channel", "rb_asset"} /\ rb_raised = "channel")
        => \A i \in 1..Len(outer) :
               i # rb_i => rb_slug(outer[i]) \in DOMAIN channels_data

\* The primary pass is over.
PrimaryPassOver == pc \notin {"rb_listing", "rb_channel", "rb_asset"}

\* C11: when the primary pass is over and no fetch of it failed, every channel
\* provider A listed with all its fields is in the result, whatever record
\* lacked a field; and when the merge is over and no fetch failed, every
\* channel provider B listed is in the result, whatever entry lacked a field.
C11_MalformedRecordSkippedAlone ==
    /\ (PrimaryPassOver /\ rb_raised \in {"none", "KeyError"})
           => \A i \in 1..Len(outer) :
                  rb_channel_readable(outer[i])
                      => rb_slug(outer[i]) \in DOMAIN channels_data
    /\ Merged => Advertised \subseteq DOMAIN channels_data

\* The entry has the fields a programme is built from.
entry_readable(prog_data) == "upphaf" \in DOMAIN prog_data

\* C12: when provider A's listing request failed, every well-formed entry
\* provider B can return is folded without an exception and its programme is
\* in the result afterwards; and when provider B yielded no channels, the
\* merged result holds the channels provider A listed and only programmes of
\* provider A.
C12_SourceIndependence ==
    /\ (pc = "syn_entry" /\ rb_raised = "listing")
           => \A prog_data \in {e \in SynEntries : entry_readable(e)} :
                  LET folded == fold_entry(channels_data, syn_channels[syn_i],
                                           prog_data)
                  IN  /\ folded.raised = "none"
                      /\ \E k \in DOMAIN folded.data :
                             with_key(folded.data[k].programmes,
                                      merge_key(syn_programme(prog_data))) # {}
    /\ (Merged /\ syn_channels = <<>>)
           => \A k \in DOMAIN channels_data :
                  /\ k \in ListedByPrimary
                  /\ \A i \in 1..Len(channels_data[k].programmes) :
                         channels_data[k].programmes[i].source = "redbee"

\* C13: every programme of the result starts before it stops.
C13_StartBeforeStop ==
    \A k \in DOMAIN channels_data :
        \A i \in 1..Len(channels_data[k].programmes) :
            instant_of(channels_data[k].programmes[i].start)
                < instant_of(channels_data[k].programmes[i].stop)

\* C18: when the merge is over, no channel holds both a placeholder and a
\* programme of provider A or B.
C18_PlaceholderNeverWithRealData ==
    Merged =>
        \A k \in DOMAIN channels_data :
            ~ /\ \E i \in 1..Len(channels_data[k].programmes) :
                     channels_data[k].programmes[i].source = "placeholder"
              /\ \E i \in 1..Len(channels_data[k].programmes) :
                     channels_data[k].programmes[i].source \in {"redbee", "syn"}

\* C19: in every state where the loop over a day's entries stands, every entry
\* the fetch for the slug can return is folded into the channel keyed by the
\* normalized slug, and that channel is in the result.
C19_SecondaryRoutingSafe ==
    pc = "syn_entry" =>
        \A prog_data \in SynEntries :
            /\ entry_channel(syn_channels[syn_i], prog_data)
                   = normalize_channel_slug(syn_channels[syn_i], "syn")
            /\ entry_channel(syn_channels[syn_i], prog_data) \in DOMAIN channels_data

\* C20: no step of the primary pass or of the secondary pass removes a channel
\* key, and every programme of a channel's list is still in the list, at its
\* place, after the step.
C20_MonotonicAccumulation ==
    [][\A k \in DOMAIN channels_data :
           /\ k \in DOMAIN channels_data'
           /\ Len(channels_data'[k].programmes) >= Len(channels_data[k].programmes)
           /\ \A i \in 1..Len(channels_data[k].programmes) :
                  /\ merge_key(channels_data'[k].programmes[i])
                         = merge_key(channels_data[k].programmes[i])
                  /\ channels_data'[k].programmes[i].source
                         = channels_data[k].programmes[i].source]_vars

\* A word is the marker followed by digits, as "S2" or "E20".
IsTagged(word, marker) ==
    Len(word) >= 2 /\ word[1] = marker /\ AllDigits(Tail(word))

\* The raw title has the form "S<season> E<episode> <title>".
HasSeasonForm(title) ==
    /\ Len(Split(title)) >= 3
    /\ IsTagged(Split(title)[1], "S")
    /\ IsTagged(Split(title)[2], "E")

\* C17: _parse_title returns the season, the episode and the bare title of a
\* raw title of the form "S<season> E<episode> <title>", and returns every
\* other raw title as it is (the blanks around it apart) with an empty season
\* and an empty episode.
C17_TitleParsing ==
    parsed # NotCalled =>
        IF HasSeasonForm(raw)
        THEN parsed = <<Join(SubSeq(Split(raw), 3, Len(Split(raw)))),
                        Tail(Split(raw)[1]), Tail(Split(raw)[2])>>
        ELSE parsed = <<Strip(raw), <<>>, <<>>>>

\* The texts build_epg can return, and those of a refresh in which a provider
\* answered.
Documents == {build_epg(a_up, b_up) : a_up \in BOOLEAN, b_up \in BOOLEAN}

SuccessfulDocuments ==
    {build_epg(a_up, b_up) : a_up \in BOOLEAN, b_up \in {TRUE}}
        \cup {build_epg(TRUE, FALSE)}

\* An invariant of Spec that ties build_epg as one call to its steps: when both
\* listing requests failed, the document is the one build_epg(FALSE, FALSE) is.
BothDownGivesEmptyDocument ==
    (pc = "done" /\ rb_raised = "listing" /\ syn_channels = <<>>)
        => tostring(root) = build_epg(FALSE, FALSE)

\* C14: while the cache file holds the document of a refresh in which a
\* provider answered, no step of a refresh in which both providers failed
\* changes the file.
C14_StaleIsWorstOutcome ==
    [][\A j \in Jobs :
           (/\ jobs[j].pc \in {"open", "write"}
            /\ jobs[j].up = <<FALSE, FALSE>>
            /\ EPG_FILE.exists
            /\ EPG_FILE.text \in SuccessfulDocuments)
               => EPG_FILE' = EPG_FILE]_vars

\* C15: a complete response with the file is a whole document, and the file is
\* never being sent to a reader while a refresh has it open for writing.
C15_AtomicArtifact ==
    /\ (request.pc = "served" /\ request.status = 200)
           => request.body \in Documents
    /\ ~(request.pc = "sending" /\ \E j \in Jobs : jobs[j].pc = "write")

\* C16: at no time are the runs of two jobs in progress together.
C16_RefreshesSerialized ==
    \A i, j \in Jobs : i # j => (jobs[i].pc = "idle" \/ jobs[j].pc = "idle")

====
